---- MODULE Spec2Model ----
(***************************************************************************)
(* Model of src/app.py: the Streamlit legal-document classifier.           *)
(*                                                                         *)
(* Strings are sequences of one-character strings, so that str.strip,      *)
(* str.lower, str.endswith and str.join are computed and not assumed.      *)
(* The OCR service, the chat model and the upload buffer are collaborators *)
(* whose answers are drawn from small sets when the code calls them.       *)
(***************************************************************************)
EXTENDS Integers, Sequences, FiniteSets, TLC

VARIABLES
    llm_client,       \* app.py:24-30, the request parameters the client carries
    uploaded_files,   \* app.py:110-114, the names of the uploaded files, in order
    pc,               \* position of the script in app.py:116-154
    idx,              \* index of the file the for loop of app.py:121 is at
    file_bytes,       \* app.py:122
    extracted_text,   \* app.py:126/128
    results,          \* app.py:119
    displayed,        \* the rows handed to st.dataframe, app.py:153-154
    phase,            \* per file: pending, extracting, classifying, done, failed
    ocr_out,          \* per file: what the extraction step produced
    llm_out,          \* per file: what process_with_llm produced
    llm_requests,     \* the requests received by the chat collaborator, in order
    calls,            \* the collaborator calls issued, in order
    x_pages,          \* argument of a stand-alone extract_text_from_file call
    x_out,            \* its return value
    x_pc              \* its position

vars == <<llm_client, uploaded_files, pc, idx, file_bytes, extracted_text,
          results, displayed, phase, ocr_out, llm_out, llm_requests, calls,
          x_pages, x_out, x_pc>>

batch_vars == <<llm_client, uploaded_files, pc, idx, file_bytes, extracted_text,
                results, displayed, phase, ocr_out, llm_out, llm_requests, calls>>

x_vars == <<x_pages, x_out, x_pc>>

-----------------------------------------------------------------------------
(* Bounds *)

MaxFiles == 3
MaxPages == 2
MaxLines == 2

-----------------------------------------------------------------------------
(* Python string operations *)

NL == "\n"

None == <<"None">>

IsSpace(c) == c \in {" ", NL, "\t"}

RECURSIVE lstrip(_)
lstrip(s) ==
    IF s = <<>> THEN <<>>
    ELSE IF IsSpace(Head(s)) THEN lstrip(Tail(s)) ELSE s

RECURSIVE rstrip(_)
rstrip(s) ==
    IF s = <<>> THEN <<>>
    ELSE IF IsSpace(s[Len(s)]) THEN rstrip(SubSeq(s, 1, Len(s) - 1)) ELSE s

strip_identity(s) == s

strip(s) == rstrip(lstrip(s))

LowerChar(c) ==
    CASE c = "D" -> "d"
      [] c = "O" -> "o"
      [] c = "C" -> "c"
      [] c = "X" -> "x"
      [] c = "B" -> "b"
      [] OTHER -> c

lower(s) == [i \in DOMAIN s |-> LowerChar(s[i])]

endswith(s, suffix) ==
    /\ Len(s) >= Len(suffix)
    /\ SubSeq(s, Len(s) - Len(suffix) + 1, Len(s)) = suffix

RECURSIVE join(_, _)
join(sep, strs) ==
    IF strs = <<>> THEN <<>>
    ELSE IF Len(strs) = 1 THEN strs[1]
    ELSE strs[1] \o sep \o join(sep, Tail(strs))

\* filter(None, strs): keeps the entries that are truthy, i.e. not "".
RECURSIVE filter_none(_)
filter_none(strs) ==
    IF strs = <<>> THEN <<>>
    ELSE IF Head(strs) = <<>> THEN filter_none(Tail(strs))
    ELSE <<Head(strs)>> \o filter_none(Tail(strs))

-----------------------------------------------------------------------------
(* String literals of the program and of the collaborators' answers *)

DocxSuffix == <<".", "d", "o", "c", "x">>

Unclassified == <<"U", "n", "c", "l", "a", "s", "s", "i", "f", "i", "e", "d">>

Judgement == <<"J", "u", "d", "g", "e", "m", "e", "n", "t">>

NonJudgement == <<"N", "o", "n", "-", "J", "u", "d", "g", "e", "m", "e", "n", "t">>

\* str(e) of the AttributeError zipfile raises when handed a bytes object:
\* "'bytes' object has no attribute 'seek'"
NoSeekMessage ==
    <<"'", "b", "y", "t", "e", "s", "'", " ", "o", "b", "j", "e", "c", "t", " ",
      "h", "a", "s", " ", "n", "o", " ", "a", "t", "t", "r", "i", "b", "u", "t",
      "e", " ", "'", "s", "e", "e", "k", "'">>

\* File names the upload widget can deliver (type filter of app.py:112).
FileNames ==
    { <<"a", ".", "p", "d", "f">>,
      <<"B", ".", "D", "O", "C", "X">> }

\* str(e) of the exceptions a collaborator call can raise: an exception built
\* without arguments has the empty message.
ErrorMessages == { <<>>, <<"T", "i", "m", "e", "o", "u", "t">> }

\* Recognised lines (line.content) of the OCR collaborator.
LineFinal == <<"F", "I", "N", "A", "L", " ", "J", "U", "D", "G", "M", "E", "N", "T">>

LineCase == <<"C", "a", "s", "e", " ", "1">>

LineMotion == <<"M", "O", "T", "I", "O", "N">>

\* A paragraph text (para.text) of a word-processor document.
ParaCase == <<"C", "a", "s", "e", " ", "N", "o", ".", " ", "1", "2", "3">>

\* result.pages of the OCR collaborator in the batch loop: a sequence of pages,
\* each a sequence of line contents.
OcrResults ==
    { <<>>,
      << << <<" ">> >>, <<>> >>,
      << <<LineFinal>> >>,
      << <<LineCase, LineMotion>>, <<LineFinal>> >> }

\* response.content of the chat collaborator: free text.
LlmResponses ==
    { Judgement,
      <<" ">> \o NonJudgement \o <<NL>>,
      <<"U", "n", "s", "u", "r", "e">>,
      <<" ", NL>> }

\* What a request carries as temperature when the caller passes none: 0.7, the
\* default of langchain-openai before 0.3, or nothing from 0.3 on (the service
\* then decodes at its own default, 1.0).
LibraryTemperatures == { [sent |-> TRUE, tenths |-> 7], [sent |-> FALSE, tenths |-> 10] }

-----------------------------------------------------------------------------
(* Helper functions of app.py *)

\* The nested loops of app.py:53-55 and app.py:70-72: every line of every page,
\* appended in page order and line order.
RECURSIVE collect_lines(_)
collect_lines(pages) ==
    IF pages = <<>> THEN <<>>
    ELSE Head(pages) \o collect_lines(Tail(pages))

extract_text_from_file_one_page(pages) ==
    join(<<NL>>, IF pages = <<>> THEN <<>> ELSE Head(pages))

extract_text_from_file(pages) == join(<<NL>>, collect_lines(pages))

\* docx.Document(arg): python-docx hands a non-str argument to zipfile.ZipFile
\* as a stream; a bytes object has no seek(), so opening it raises.
docx_Document(arg) ==
    IF arg.type = "bytes"
    THEN [raised |-> TRUE, message |-> NoSeekMessage]
    ELSE [raised |-> FALSE, message |-> <<>>]

RECURSIVE collect_images(_)
collect_images(image_results) ==
    IF image_results = <<>> THEN <<>>
    ELSE collect_lines(Head(image_results)) \o collect_images(Tail(image_results))

\* app.py:36-57 once the document is open: paragraph texts, then the lines
\* of every embedded image, falsy entries filtered out, newline-joined.
extract_text_from_docx(paragraphs, image_results) ==
    join(<<NL>>, filter_none(paragraphs \o collect_images(image_results)))

\* A parsed word-processor document: paragraph texts and, per embedded image,
\* the OCR result of that image.
DocxParagraphs == { <<ParaCase, <<>>>>, <<>> }

DocxImageResults == { <<>>, << << <<LineFinal>> >> >> }

\* The keyword arguments of AzureChatOpenAI(...) at app.py:24-30, each read
\* from the environment.
ClientKwargs ==
    [api_key |-> "AZURE_OPENAI_API_KEY", azure_endpoint |-> "AZURE_OPENAI_ENDPOINT",
     deployment_name |-> "deployment_name", model |-> "MODEL_NAME",
     api_version |-> "API_VERSION"]

\* The client the constructor builds: the temperature is the caller's when
\* passed, the library's default otherwise.
AzureChatOpenAI(kwargs, library_default) ==
    [temperature |-> IF "temperature" \in DOMAIN kwargs
                     THEN [sent |-> TRUE, tenths |-> kwargs.temperature]
                     ELSE library_default]

-----------------------------------------------------------------------------
(* The batch loop, app.py:116-154 *)

N == Len(uploaded_files)

NoText == <<"no text">>

PendingOcr == [status |-> "none", text |-> NoText, message |-> <<>>]

PendingLlm == [status |-> "none", response |-> NoText, message |-> <<>>]

is_docx(name) == endswith(lower(name), DocxSuffix)

Row(name, category) == [FileName |-> name, Category |-> category]

is_blank_only_empty(text) == text = <<>>

\* not extracted_text.strip(), app.py:130
is_blank(text) == strip(text) = <<>>

Advance_SkipOne ==
    IF idx + 1 < N
    THEN /\ idx' = idx + 2
         /\ pc' = "read"
    ELSE /\ idx' = idx
         /\ pc' = "display"

\* End of one iteration of the for loop of app.py:121: the next file, or the
\* statements after the loop.
Advance ==
    IF idx < N
    THEN /\ idx' = idx + 1
         /\ pc' = "read"
    ELSE /\ idx' = idx
         /\ pc' = "display"

HandleException_NoRow(message) ==
    /\ results' = results
    /\ phase' = [phase EXCEPT ![idx] = "failed"]
    /\ Advance

HandleException_Abort(message) ==
    /\ results' = Append(results, Row(uploaded_files[idx], message))
    /\ phase' = [phase EXCEPT ![idx] = "failed"]
    /\ idx' = idx
    /\ pc' = "display"

HandleException_Reraise(message) ==
    /\ pc' = "crashed"
    /\ UNCHANGED <<results, phase, idx>>

\* except Exception as e, app.py:145-149
HandleException(message) ==
    /\ results' = Append(results, Row(uploaded_files[idx], message))
    /\ phase' = [phase EXCEPT ![idx] = "failed"]
    /\ Advance

Init ==
    /\ llm_client \in { AzureChatOpenAI(ClientKwargs, d) : d \in LibraryTemperatures }
    /\ uploaded_files \in UNION { [1..n -> FileNames] : n \in 0..MaxFiles }
    /\ pc = "start"
    /\ idx = 0
    /\ file_bytes = None
    /\ extracted_text = None
    /\ results = <<>>
    /\ displayed = None
    /\ phase = [i \in 1..Len(uploaded_files) |-> "pending"]
    /\ ocr_out = [i \in 1..Len(uploaded_files) |-> PendingOcr]
    /\ llm_out = [i \in 1..Len(uploaded_files) |-> PendingLlm]
    /\ llm_requests = <<>>
    /\ calls = <<>>
    /\ x_pages = <<>>
    /\ x_out = None
    /\ x_pc = "off"

\* if uploaded_files: ... results = [], app.py:116-119, and the loop header.
Start ==
    /\ pc = "start"
    /\ IF N > 0
       THEN /\ results' = <<>>
            /\ pc' = "read"
            /\ idx' = 1
       ELSE /\ pc' = "end"
            /\ UNCHANGED <<idx, results>>
    /\ UNCHANGED <<llm_client, uploaded_files, file_bytes, extracted_text, displayed,
                   phase, ocr_out, llm_out, llm_requests, calls, x_vars>>

\* file_bytes = uploaded_file.read(), app.py:122, returning.
ReadFile ==
    /\ pc = "read"
    /\ file_bytes' = [type |-> "bytes", of |-> idx]
    /\ extracted_text' = None
    /\ phase' = [phase EXCEPT ![idx] = "extracting"]
    /\ pc' = "extract"
    /\ UNCHANGED <<llm_client, uploaded_files, idx, results, displayed, ocr_out,
                   llm_out, llm_requests, calls, x_vars>>

\* uploaded_file.read() raising: the statement stands before the try of
\* app.py:124, so the exception leaves the loop and the script.
ReadFileRaises ==
    /\ pc = "read"
    /\ pc' = "crashed"
    /\ UNCHANGED <<llm_client, uploaded_files, idx, file_bytes, extracted_text, results,
                   displayed, phase, ocr_out, llm_out, llm_requests, calls, x_vars>>

\* extract_text_from_docx(file_bytes), app.py:125-126.
ExtractDocx ==
    /\ pc = "extract"
    /\ is_docx(uploaded_files[idx])
    /\ LET d == docx_Document(file_bytes) IN
       IF d.raised
       THEN /\ ocr_out' = [ocr_out EXCEPT ![idx] =
                              [status |-> "open_raised", text |-> NoText,
                               message |-> d.message]]
            /\ calls' = calls
            /\ extracted_text' = extracted_text
            /\ HandleException(d.message)
       ELSE \E paragraphs \in DocxParagraphs, image_results \in DocxImageResults :
            /\ ocr_out' = [ocr_out EXCEPT ![idx] =
                              [status |-> "ok",
                               text |-> extract_text_from_docx(paragraphs, image_results),
                               message |-> <<>>]]
            /\ calls' = calls \o [k \in 1..Len(image_results) |-> [op |-> "ocr", file |-> idx]]
            /\ extracted_text' = extract_text_from_docx(paragraphs, image_results)
            /\ pc' = "check"
            /\ UNCHANGED <<idx, results, phase>>
    /\ UNCHANGED <<llm_client, uploaded_files, file_bytes, displayed, llm_out,
                   llm_requests, x_vars>>

\* extract_text_from_file(file_bytes), app.py:127-128, the OCR call returning.
ExtractFile ==
    /\ pc = "extract"
    /\ ~is_docx(uploaded_files[idx])
    /\ \E pages \in OcrResults :
         /\ extracted_text' = extract_text_from_file(pages)
         /\ ocr_out' = [ocr_out EXCEPT ![idx] =
                           [status |-> "ok", text |-> extract_text_from_file(pages),
                            message |-> <<>>]]
    /\ calls' = Append(calls, [op |-> "ocr", file |-> idx])
    /\ pc' = "check"
    /\ UNCHANGED <<llm_client, uploaded_files, idx, file_bytes, results, displayed,
                   phase, llm_out, llm_requests, x_vars>>

\* extract_text_from_file(file_bytes) with the OCR call raising: the except
\* clause of app.py:145-149 records str(e) as the category.
ExtractFileRaises ==
    /\ pc = "extract"
    /\ ~is_docx(uploaded_files[idx])
    /\ \E message \in ErrorMessages :
         /\ ocr_out' = [ocr_out EXCEPT ![idx] =
                           [status |-> "raised", text |-> NoText, message |-> message]]
         /\ HandleException(message)
    /\ calls' = Append(calls, [op |-> "ocr", file |-> idx])
    /\ UNCHANGED <<llm_client, uploaded_files, file_bytes, extracted_text, displayed,
                   llm_out, llm_requests, x_vars>>

\* if not extracted_text.strip(): append "Unclassified"; continue, app.py:130-135.
CheckBlank ==
    /\ pc = "check"
    /\ IF is_blank(extracted_text)
       THEN /\ results' = Append(results, Row(uploaded_files[idx], Unclassified))
            /\ phase' = [phase EXCEPT ![idx] = "done"]
            /\ Advance
       ELSE /\ pc' = "classify"
            /\ phase' = [phase EXCEPT ![idx] = "classifying"]
            /\ UNCHANGED <<idx, results>>
    /\ UNCHANGED <<llm_client, uploaded_files, file_bytes, extracted_text, displayed,
                   ocr_out, llm_out, llm_requests, calls, x_vars>>

\* The request llm_client.invoke sends, app.py:78-101.
LlmRequest ==
    [file |-> idx, user |-> extracted_text, temperature |-> llm_client.temperature]

\* category = process_with_llm(extracted_text); results.append(...), app.py:138-143.
Classify ==
    /\ pc = "classify"
    /\ \E content \in LlmResponses :
         /\ llm_out' = [llm_out EXCEPT ![idx] =
                           [status |-> "ok", response |-> content, message |-> <<>>]]
         /\ results' = Append(results, Row(uploaded_files[idx], strip(content)))
    /\ llm_requests' = Append(llm_requests, LlmRequest)
    /\ calls' = Append(calls, [op |-> "llm", file |-> idx])
    /\ phase' = [phase EXCEPT ![idx] = "done"]
    /\ Advance
    /\ UNCHANGED <<llm_client, uploaded_files, file_bytes, extracted_text, displayed,
                   ocr_out, x_vars>>

\* process_with_llm raising: the except clause of app.py:145-149.
ClassifyRaises ==
    /\ pc = "classify"
    /\ \E message \in ErrorMessages :
         /\ llm_out' = [llm_out EXCEPT ![idx] =
                           [status |-> "raised", response |-> NoText, message |-> message]]
         /\ HandleException(message)
    /\ llm_requests' = Append(llm_requests, LlmRequest)
    /\ calls' = Append(calls, [op |-> "llm", file |-> idx])
    /\ UNCHANGED <<llm_client, uploaded_files, file_bytes, extracted_text, displayed,
                   ocr_out, x_vars>>

\* st.success(...); st.dataframe(pd.DataFrame(results)), app.py:152-154.
Display ==
    /\ pc = "display"
    /\ displayed' = results
    /\ pc' = "done"
    /\ UNCHANGED <<llm_client, uploaded_files, idx, file_bytes, extracted_text, results,
                   phase, ocr_out, llm_out, llm_requests, calls, x_vars>>

Next ==
    \/ Start
    \/ ReadFile
    \/ ReadFileRaises
    \/ ExtractDocx
    \/ ExtractFile
    \/ ExtractFileRaises
    \/ CheckBlank
    \/ Classify
    \/ ClassifyRaises
    \/ Display

Spec == Init /\ [][Next]_vars

-----------------------------------------------------------------------------
(* extract_text_from_file called on its own, app.py:59-74 *)

XLines == { LineCase, LineMotion }

XPage == UNION { [1..k -> XLines] : k \in 0..MaxLines }

XPages == UNION { [1..m -> XPage] : m \in 0..MaxPages }

InitExtract ==
    /\ llm_client = AzureChatOpenAI(ClientKwargs, [sent |-> TRUE, tenths |-> 7])
    /\ uploaded_files = <<>>
    /\ pc = "off"
    /\ idx = 0
    /\ file_bytes = None
    /\ extracted_text = None
    /\ results = <<>>
    /\ displayed = None
    /\ phase = <<>>
    /\ ocr_out = <<>>
    /\ llm_out = <<>>
    /\ llm_requests = <<>>
    /\ calls = <<>>
    /\ x_pages \in XPages
    /\ x_out = None
    /\ x_pc = "call"

\* poller.result() returns result.pages = x_pages; the function returns the text.
ExtractReturns ==
    /\ x_pc = "call"
    /\ x_out' = extract_text_from_file(x_pages)
    /\ x_pc' = "returned"
    /\ UNCHANGED <<x_pages, batch_vars>>

\* begin_analyze_document or poller.result() raises: the exception propagates.
ExtractRaises ==
    /\ x_pc = "call"
    /\ x_pc' = "raised"
    /\ UNCHANGED <<x_pages, x_out, batch_vars>>

NextExtract ==
    \/ ExtractReturns
    \/ ExtractRaises

SpecExtract == InitExtract /\ [][NextExtract]_vars

-----------------------------------------------------------------------------
(* Vocabulary of the properties *)

AfterLoop == pc \in {"display", "done"}

\* File i has left the loop body: its iteration ended with a row appended.
Finished(i) == i < idx \/ (i = idx /\ AfterLoop)

AllSpace(s) == \A k \in DOMAIN s : IsSpace(s[k])

\* t is s without a whitespace-only prefix and suffix, and no more can be removed.
IsTrimOf(t, s) ==
    /\ \E a \in 0..Len(s) : \E b \in a..Len(s) :
          /\ t = SubSeq(s, a + 1, b)
          /\ AllSpace(SubSeq(s, 1, a))
          /\ AllSpace(SubSeq(s, b + 1, Len(s)))
    /\ t /= <<>> => ~IsSpace(t[1]) /\ ~IsSpace(t[Len(t)])

RequestsFor(i) == { k \in DOMAIN llm_requests : llm_requests[k].file = i }

OcrFailed(i) == ocr_out[i].status = "raised"

LlmFailed(i) == llm_out[i].status = "raised"

NonBlankFiles ==
    { i \in 1..N : ocr_out[i].status = "ok" /\ ~AllSpace(ocr_out[i].text) }

\* The categories a classification can give, and the category of blank text.
ClassificationLabels == { strip(r) : r \in LlmResponses } \cup { Judgement, NonJudgement }

\* After file i's failure the loop is at a later file or past its end.
LoopWentOn(i) == IF i < N THEN idx > i ELSE AfterLoop

\* The row of a finished file j is what j's own extraction and classification
\* outcomes give, whatever happened to the other files.
OwnRow(j) ==
    /\ ocr_out[j].status /= "none"
    /\ results[j].FileName = uploaded_files[j]
    /\ results[j].Category =
          IF ocr_out[j].status /= "ok" THEN ocr_out[j].message
          ELSE IF AllSpace(ocr_out[j].text) THEN Unclassified
          ELSE IF llm_out[j].status = "ok" THEN strip(llm_out[j].response)
          ELSE llm_out[j].message
    /\ (ocr_out[j].status = "ok" /\ ~AllSpace(ocr_out[j].text)) => llm_out[j].status /= "none"

-----------------------------------------------------------------------------
(* C1: when the batch loop has finished, results has exactly N rows and the
   i-th row carries the name of the i-th uploaded file, whatever the per-file
   outcomes were; the table displayed is that list. *)
C1_OneRowPerFileInOrder ==
    /\ AfterLoop =>
          /\ Len(results) = N
          /\ \A i \in 1..N : results[i].FileName = uploaded_files[i]
    /\ pc = "done" => displayed = results

C1_Witness ==
    /\ pc = "done"
    /\ N = 3
    /\ OcrFailed(1)
    /\ LlmFailed(2)
    /\ llm_out[3].status = "ok"
    /\ Len(displayed) = 3

(* C2: no failure of a per-file step (reading the bytes, extracting,
   classifying) raises past the batch loop: the script never ends by an
   exception, and every file whose iteration began has its row once the loop
   has moved on. *)
C2_NothingRaisesPastLoop ==
    /\ pc /= "crashed"
    /\ \A i \in 1..N : Finished(i) => i <= Len(results)

(* C3, as stated: a file whose OCR call raised has one row whose Category is
   an error indicator distinguishable from every classification label and
   from "Unclassified", the LLM was not invoked for it, and the loop went on. *)
C3_ErrorRowDistinguishable ==
    \A i \in 1..N : OcrFailed(i) =>
        /\ Len(results) >= i
        /\ results[i].Category \notin ClassificationLabels \cup {Unclassified}
        /\ RequestsFor(i) = {}
        /\ LoopWentOn(i)

(* C3, amended: a file whose OCR call raised has one row whose Category is
   str(e) of the exception raised, the LLM was not invoked for it, the loop
   went on to the next file, and every later file that finished has the row
   its own outcomes give; the script stops early only where the read of a
   later file's own bytes raises. *)
C3_OcrFailureIsolated ==
    \A i \in 1..N : OcrFailed(i) =>
        /\ Len(results) >= i
        /\ results[i] = Row(uploaded_files[i], ocr_out[i].message)
        /\ llm_out[i].status = "none"
        /\ RequestsFor(i) = {}
        /\ LoopWentOn(i)
        /\ \A j \in (i + 1)..N : Finished(j) => Len(results) >= j /\ OwnRow(j)
        /\ AfterLoop => Len(results) = N
        /\ pc = "crashed" => idx > i /\ phase[idx] = "pending"

C3_Witness ==
    /\ pc = "done"
    /\ N >= 2
    /\ OcrFailed(1)
    /\ ocr_out[2].status = "ok"
    /\ llm_out[2].status = "ok"
    /\ results[2].Category = Judgement

(* C4: a file whose LLM call raised has exactly one row, whose Category is
   str(e) of the exception raised; no second row is appended for it, and the
   loop went on to the later files, each of which has its own row once
   finished; the script stops early only where the read of a later file's
   own bytes raises. *)
C4_LlmFailureIsolated ==
    \A i \in 1..N : LlmFailed(i) =>
        /\ Len(results) >= i
        /\ results[i] = Row(uploaded_files[i], llm_out[i].message)
        /\ Len(results) = Cardinality({ j \in 1..N : Finished(j) })
        /\ LoopWentOn(i)
        /\ \A j \in (i + 1)..N : Finished(j) => Len(results) >= j /\ OwnRow(j)
        /\ AfterLoop => Len(results) = N
        /\ pc = "crashed" => idx > i /\ phase[idx] = "pending"

C4_Witness ==
    /\ pc = "done"
    /\ N >= 2
    /\ LlmFailed(1)
    /\ results[1].Category = <<"T", "i", "m", "e", "o", "u", "t">>
    /\ llm_out[2].status = "ok"
    /\ results[2].Category = NonJudgement

(* C5: a file whose extracted text is empty or whitespace-only has a row whose
   Category is exactly "Unclassified" and no LLM request was made for it; the
   number of LLM requests never exceeds the number of files with non-blank
   extracted text. *)
C5_BlankTextUnclassified ==
    /\ \A i \in 1..N :
          (ocr_out[i].status = "ok" /\ AllSpace(ocr_out[i].text)) =>
              /\ RequestsFor(i) = {}
              /\ llm_out[i].status = "none"
              /\ Finished(i) =>
                    /\ Len(results) >= i
                    /\ results[i] = Row(uploaded_files[i], Unclassified)
    /\ Len(llm_requests) <= Cardinality(NonBlankFiles)
    /\ \A k \in DOMAIN llm_requests : llm_requests[k].file \in NonBlankFiles

C5_Witness ==
    /\ pc = "done"
    /\ N >= 2
    /\ ocr_out[1].status = "ok"
    /\ ocr_out[1].text = <<" ">>
    /\ results[1].Category = Unclassified
    /\ ocr_out[2].text = <<>>
    /\ results[2].Category = Unclassified
    /\ llm_requests = <<>>

(* C6: every request process_with_llm sends to the chat collaborator carries
   the decoding temperature 0. *)
C6_TemperatureZero ==
    \A k \in DOMAIN llm_requests :
        /\ llm_requests[k].temperature.sent
        /\ llm_requests[k].temperature.tenths = 0

(* C7: for an uploaded .docx file the text the batch loop obtains is the
   newline-join of the non-blank paragraph texts followed by the non-blank
   lines OCR-ed from the embedded images. *)
C7_DocxTextObtained ==
    \A i \in 1..N :
        (is_docx(uploaded_files[i]) /\ phase[i] \in {"classifying", "done", "failed"}) =>
            /\ ocr_out[i].status = "ok"
            /\ ocr_out[i].text \in
                  { extract_text_from_docx(p, r) : p \in DocxParagraphs, r \in DocxImageResults }

(* C8: for a file whose extraction gave non-blank text and whose LLM call
   returned r, the row's Category is r without its leading and trailing
   whitespace, whether or not that is one of the two labels. *)
C8_CategoryIsTrimmedResponse ==
    \A i \in 1..N : llm_out[i].status = "ok" =>
        /\ ocr_out[i].status = "ok"
        /\ ~AllSpace(ocr_out[i].text)
        /\ Len(results) >= i
        /\ results[i].FileName = uploaded_files[i]
        /\ IsTrimOf(results[i].Category, llm_out[i].response)

C8_Witness ==
    /\ pc = "done"
    /\ N >= 2
    /\ llm_out[1].response = <<" ">> \o NonJudgement \o <<NL>>
    /\ results[1].Category = NonJudgement
    /\ llm_out[2].status = "ok"
    /\ results[2].Category = <<"U", "n", "s", "u", "r", "e">>

-----------------------------------------------------------------------------
(* C9 *)

\* str.split(sep) for a one-character separator.
RECURSIVE split(_, _)
split(s, sep) ==
    IF \A k \in DOMAIN s : s[k] /= sep THEN <<s>>
    ELSE LET k == CHOOSE k \in DOMAIN s : s[k] = sep /\ \A m \in 1..(k - 1) : s[m] /= sep
         IN <<SubSeq(s, 1, k - 1)>> \o split(SubSeq(s, k + 1, Len(s)), sep)

RECURSIVE LinesBefore(_, _)
LinesBefore(pages, p) ==
    IF p <= 1 THEN 0 ELSE Len(pages[p - 1]) + LinesBefore(pages, p - 1)

TotalLines(pages) == LinesBefore(pages, Len(pages) + 1)

(* C9: for an OCR result of pages p1..pm, extract_text_from_file returns the
   newline-join of all line contents in page order and, within a page, in
   line order: the newline-separated pieces of the text are as many as the
   lines, and line j of page p is the piece at position (lines of the pages
   before p) + j; a result with no lines gives the empty string. *)
C9_AllLinesInOrder ==
    x_pc = "returned" =>
        IF TotalLines(x_pages) = 0 THEN x_out = <<>>
        ELSE LET pieces == split(x_out, NL) IN
             /\ Len(pieces) = TotalLines(x_pages)
             /\ \A p \in DOMAIN x_pages : \A j \in DOMAIN x_pages[p] :
                   pieces[LinesBefore(x_pages, p) + j] = x_pages[p][j]

C9_Witness ==
    /\ x_pc = "returned"
    /\ x_pages = << <<LineCase, LineMotion>>, <<LineMotion>> >>
    /\ x_out = LineCase \o <<NL>> \o LineMotion \o <<NL>> \o LineMotion

-----------------------------------------------------------------------------
(* C10 *)

PhaseSteps ==
    { <<"pending", "extracting">>, <<"extracting", "classifying">>,
      <<"classifying", "done">>, <<"extracting", "failed">>,
      <<"classifying", "failed">>, <<"extracting", "done">> }

NewCalls == { k \in DOMAIN calls' : k > Len(calls) }

(* C10: each file moves pending -> extracting -> classifying -> done, or to
   failed from extracting or classifying, or to done straight from extracting
   with the row "Unclassified"; an LLM call for a file is issued only after
   that file's extraction returned, and every OCR or LLM call is for the file
   the loop is at, issued when the rows of all earlier files are appended. *)
C10_OneFileAtATime ==
    [][ /\ \A i \in 1..N : phase'[i] /= phase[i] =>
              /\ <<phase[i], phase'[i]>> \in PhaseSteps
              /\ i = idx
              /\ (phase[i] = "extracting" /\ phase'[i] = "done") =>
                    results' = Append(results, Row(uploaded_files[i], Unclassified))
              /\ phase'[i] \in {"done", "failed"} => Len(results') = i
        /\ \A i \in 1..N : phase[i] = "pending" => i >= idx /\ Len(results) < i
        /\ SubSeq(calls', 1, Len(calls)) = calls
        /\ \A k \in NewCalls :
              /\ calls'[k].file = idx
              /\ Len(results) = idx - 1
              /\ phase[idx] = (IF calls'[k].op = "llm" THEN "classifying" ELSE "extracting")
              /\ calls'[k].op = "llm" => ocr_out[idx].status = "ok"
      ]_vars

C10_Witness ==
    /\ pc = "done"
    /\ N = 3
    /\ phase = <<"done", "failed", "done">>
    /\ calls = << [op |-> "ocr", file |-> 1], [op |-> "llm", file |-> 1],
                  [op |-> "ocr", file |-> 2],
                  [op |-> "ocr", file |-> 3] >>
    /\ results[3].Category = Unclassified

====
